---- MODULE Spec2Model ----
(***************************************************************************)
(* A model of the text-analysis service: the data access gateway           *)
(* (app/fetcher.py), the analysis orchestrator (app/manager.py), the batch *)
(* processor (app/processor.py) and the API surface with its startup       *)
(* sequence (app/main.py).                                                 *)
(*                                                                         *)
(* Python values are modelled as follows.                                  *)
(*   - None / a value: the empty sequence / a one-element sequence.        *)
(*   - an error message or an identifier string: a TLA+ string.            *)
(*   - a text (the Text field of a record): a sequence of pieces, each     *)
(*     piece a run of characters that is wholly whitespace, wholly word    *)
(*     characters or wholly punctuation; str.split, str.strip, str.lower   *)
(*     and the regular expression search work on pieces.                   *)
(*   - a field value: a tagged record (StrV, IntV, NaN).                   *)
(*   - the result of a call: Ok(value) or Raise(type, message).            *)
(***************************************************************************)
EXTENDS Integers, Sequences, FiniteSets, TLC

VARIABLES
    store_up,           \* the backing store answers at this moment
    store_docs,         \* the documents of the collection
    weapons_file,       \* data/weapons.txt: None (missing) or its lines
    data_loader,        \* dependencies.data_loader: client, db, collection
    pc,                 \* position of the process in its life cycle
    processed_results,  \* main.processed_results
    startup_error,      \* main.startup_error
    startup_log,        \* the steps of the startup sequence that have run
    response,           \* the response to the latest request
    pd_first,           \* the first response of GET /processed-data, or None
    mgr,                \* an AnalysisManager built over the fetched records
    start_calls,        \* invocations of mgr.start_analysis so far
    steps_run,          \* times start_analysis has entered its processing steps
    mgr_exc,            \* what the latest start_analysis raised, or None
    mgr_returns,        \* the lists get_processed_data has returned, in order
    proc_out,           \* what DataProcessor.process_data returned, or None
    proc_env            \* what that call drew from outside (Envs), or None

sysvars == <<store_up, store_docs, weapons_file, data_loader, pc,
             processed_results, startup_error, startup_log, response,
             pd_first>>

batchvars == <<mgr, start_calls, steps_run, mgr_exc, mgr_returns, proc_out,
               proc_env>>

vars == <<store_up, store_docs, weapons_file, data_loader, pc,
          processed_results, startup_error, startup_log, response, pd_first,
          mgr, start_calls, steps_run, mgr_exc, mgr_returns, proc_out, proc_env>>

----------------------------------------------------------------------------
(* Bounds of the model *)

MaxDocs == 2        \* documents in the collection
MaxTextLen == 2     \* pieces in a generated text
MaxRows == 2        \* records in a table handed to the batch processing
MaxCalls == 2       \* invocations of each method of the orchestrator

----------------------------------------------------------------------------
(* Python values *)

None == <<>>
Some(v) == <<v>>
IsNone(o) == Len(o) = 0
Get(o) == o[1]

Ok(v) == [ok |-> TRUE, val |-> v, exc |-> "", msg |-> ""]
Raise(type, message) == [ok |-> FALSE, val |-> None, exc |-> type, msg |-> message]

StrV(t) == [t |-> "str", s |-> t, n |-> 0]
IntV(k) == [t |-> "int", s |-> <<>>, n |-> k]
NaN == [t |-> "nan", s |-> <<>>, n |-> 0]
IdV(id) == [t |-> "id", s |-> <<>>, n |-> id]       \* an ObjectId
IdStrV(str) == [t |-> "idstr", s |-> str, n |-> 0]  \* str(ObjectId)

\* isinstance(v, str)
IsStr(v) == v.t \in {"str", "idstr"}

----------------------------------------------------------------------------
(* Texts *)

Whitespace == {" "}

\* Pieces that are neither whitespace nor word characters (\W and not \s)
Punctuation == {"."}
GenPieces == {" ", "gun", "Gun", "was"}

\* str.lower on one piece
LowerPiece(p) == IF p = "Gun" THEN "gun" ELSE p

\* str.lower
Lower(text) == [i \in 1..Len(text) |-> LowerPiece(text[i])]

RECURSIVE SplitFrom(_, _, _)
\* str.split(): the maximal runs of non-whitespace, each run one token
SplitFrom(text, i, cur) ==
    IF i > Len(text)
    THEN IF cur = "" THEN <<>> ELSE <<cur>>
    ELSE IF text[i] \in Whitespace
         THEN (IF cur = "" THEN <<>> ELSE <<cur>>) \o SplitFrom(text, i + 1, "")
         ELSE SplitFrom(text, i + 1, cur \o text[i])

Split(text) == SplitFrom(text, 1, "")

\* `not text.strip()`: the text is empty or whitespace only
IsBlank(text) == \A i \in 1..Len(text) : text[i] \in Whitespace

TextsUpTo(n) == UNION {[1..k -> GenPieces] : k \in 0..n}

\* a text that is one term written with a leading full stop: ".45"
CaliberText == <<".", "45">>

\* the text of the specification's example
ExampleText == <<"the", " ", "gun", " ", "was", " ", "the", " ", "only", " ", "gun">>

----------------------------------------------------------------------------
(* Documents of the store *)

TextVals == {StrV(t) : t \in TextsUpTo(MaxTextLen)} \cup {IntV(5)}

\* The fields of a document besides _id, its Text among vals
DocBodies(vals) ==
    {("Text" :> v) : v \in vals}
    \cup {<<>>}
    \cup {("original_text" :> StrV(<<"gun">>))}
    \cup {("Text" :> StrV(<<"gun">>)) @@ ("raw_data" :> IntV(0))}

\* The Text values of the records of a table of several records
ShortTextVals == {StrV(t) : t \in TextsUpTo(1)} \cup {IntV(5)}

\* _id is unique within a collection: document i carries ObjectId i
MkDoc(i, body) == ("_id" :> IdV(i)) @@ body

\* The tables of at most n records: one record with any of the texts, or
\* several records with short texts; and the table of the one example record
DocLists(n) ==
    UNION {{[i \in 1..k |-> MkDoc(i, bs[i])] :
               bs \in [1..k -> DocBodies(IF k = 1 THEN TextVals ELSE ShortTextVals)]} :
           k \in 0..n}
    \cup {<<MkDoc(1, ("Text" :> StrV(ExampleText)))>>}
    \cup {<<MkDoc(1, ("Text" :> StrV(CaliberText)))>>}

SysDocBodies ==
    {("Text" :> StrV(<<"gun">>)), ("Text" :> IntV(5)), <<>>,
     ("Text" :> StrV(<<"gun">>)) @@ ("raw_data" :> IntV(0))}

SysDocLists(n) ==
    UNION {{[i \in 1..k |-> MkDoc(i, bs[i])] : bs \in [1..k -> SysDocBodies]} : k \in 0..n}

\* str(ObjectId)
IdStr(id) == <<"id1", "id2", "id3", "id4">>[id]

----------------------------------------------------------------------------
(* Tables (pandas.DataFrame) *)

Range(seq) == {seq[i] : i \in 1..Len(seq)}

\* The key order of a document: _id first, as the store returns it
FieldOrder == <<"_id", "Text", "original_text", "raw_data">>

DocKeys(doc) == SelectSeq(FieldOrder, LAMBDA f : f \in DOMAIN doc)

RECURSIVE ColumnsOf(_, _, _)
\* The columns of pd.DataFrame(items): keys in order of first appearance
ColumnsOf(items, i, acc) ==
    IF i > Len(items) THEN acc
    ELSE ColumnsOf(items, i + 1,
                   acc \o SelectSeq(DocKeys(items[i]), LAMBDA f : f \notin Range(acc)))

EmptyFrame == [columns |-> <<>>, rows |-> <<>>]

\* pd.DataFrame(items): a field a document lacks is NaN in its row
DataFrame(items) ==
    LET cols == ColumnsOf(items, 1, <<>>)
    IN [columns |-> cols,
        rows |-> [i \in 1..Len(items) |->
                    [c \in Range(cols) |->
                        IF c \in DOMAIN items[i] THEN items[i][c] ELSE NaN]]]

\* df.empty
FrameEmpty(df) == Len(df.rows) = 0 \/ Len(df.columns) = 0

\* df[col], a Series
Column(df, col) == [i \in 1..Len(df.rows) |-> df.rows[i][col]]

\* df.to_dict("records")
ToDictRecords(df) == df.rows

----------------------------------------------------------------------------
(* Data access gateway: app/fetcher.py *)

NotConnectedMsg == "Database connection is not available."

\* Messages of the store driver's errors
StoreErrMsgs == {"No servers found yet", "Connection refused"}

LoaderInit == [client |-> "None", db |-> "None", collection |-> "None"]

\* DataLoader.connect: the new loader and the result of the call
connect(dl, up, m) ==
    IF up
    THEN [loader |-> [client |-> "open", db |-> "set", collection |-> "set"],
          res |-> Ok(None)]
    ELSE [loader |-> [client |-> "None", db |-> "None", collection |-> "None"],
          res |-> Raise("PyMongoError", m)]

\* DataLoader.disconnect: closes the client and leaves collection as it is
disconnect(dl) ==
    IF dl.client # "None" THEN [dl EXCEPT !.client = "closed"] ELSE dl

\* item["_id"] = str(item["_id"])
StringifyId(doc) == [doc EXCEPT !["_id"] = IdStrV(IdStr(doc["_id"].n))]

\* the items collected by `async for item in self.collection.find({})`
FindAll(docs) == [i \in 1..Len(docs) |-> StringifyId(docs[i])]

get_all_data(dl, up, docs, m) ==
    IF dl.collection = "None" THEN Raise("RuntimeError", NotConnectedMsg)
    ELSE IF ~up THEN Raise("RuntimeError", "Database operation failed: " \o m)
    ELSE Ok(FindAll(docs))

get_all_data_as_dataframe(dl, up, docs, m) ==
    IF dl.collection = "None" THEN Raise("RuntimeError", NotConnectedMsg)
    ELSE IF ~up THEN Raise("RuntimeError", "Database operation failed: " \o m)
    ELSE IF Len(FindAll(docs)) > 0 THEN Ok(DataFrame(FindAll(docs)))
    ELSE Ok(EmptyFrame)

get_data_count(dl, up, docs, m) ==
    IF dl.collection = "None" THEN Raise("RuntimeError", NotConnectedMsg)
    ELSE IF ~up THEN Raise("RuntimeError", "Count operation failed: " \o m)
    ELSE Ok(Len(docs))

get_sample_document(dl, up, docs, m) ==
    IF dl.collection = "None" THEN Raise("RuntimeError", NotConnectedMsg)
    ELSE IF ~up THEN Raise("RuntimeError", "Sample retrieval failed: " \o m)
    ELSE IF Len(docs) > 0 THEN Ok(Some(StringifyId(docs[1])))
    ELSE Ok(None)

----------------------------------------------------------------------------
(* The weapons file *)

RECURSIVE LStrip(_)
LStrip(text) ==
    IF Len(text) > 0 /\ text[1] \in Whitespace THEN LStrip(Tail(text)) ELSE text

RECURSIVE RStrip(_)
RStrip(text) ==
    IF Len(text) > 0 /\ text[Len(text)] \in Whitespace
    THEN RStrip(SubSeq(text, 1, Len(text) - 1)) ELSE text

\* str.strip
Strip(text) == RStrip(LStrip(text))

\* data/weapons.txt: missing, or a sequence of lines
WeaponFiles ==
    {None,
     Some(<<>>),
     Some(<< <<"gun">> >>),
     Some(<< <<"Gun", " ">>, <<" ">>, <<"was">> >>),
     Some(<< <<".", "45">> >>)}

\* AnalysisManager._load_weapons: stripped lines, case kept
MgrLoadWeapons(wf) ==
    IF IsNone(wf) THEN {}
    ELSE {Strip(Get(wf)[i]) : i \in {j \in 1..Len(Get(wf)) : ~IsBlank(Get(wf)[j])}}

\* DataProcessor._load_weapons: stripped, lower-cased lines
_load_weapons(wf) ==
    IF IsNone(wf) THEN {}
    ELSE {Lower(Strip(Get(wf)[i])) : i \in {j \in 1..Len(Get(wf)) : ~IsBlank(Get(wf)[j])}}

----------------------------------------------------------------------------
(* Batch processor: app/processor.py *)

\* The orders in which a set can be listed: list(a_set), `for x in a_set`.
\* The order depends on the hashes of the members, which change from one
\* process to the next, so every order is a possible outcome.
Orders(S) == {o \in [1..Cardinality(S) -> S] : Range(o) = S}

\* astype(str) of one value of a column
AsStr(v) == IF v.t = "int" THEN <<"5">> ELSE v.s

RECURSIVE JoinFrom(_, _)
\* ' '.join(values)
JoinFrom(vals, i) ==
    IF i > Len(vals) THEN <<>>
    ELSE IF i = Len(vals) THEN AsStr(vals[i])
    ELSE AsStr(vals[i]) \o <<" ">> \o JoinFrom(vals, i + 1)

\* Series.dropna()
DropNa(vals) == SelectSeq(vals, LAMBDA v : v.t # "nan")

\* all_words: the tokens of the whole column, lower-cased
AllWords(vals) == Split(Lower(JoinFrom(DropNa(vals), 1)))

\* Counter(all_words)[word]
WordCount(all_words, word) ==
    Cardinality({i \in 1..Len(all_words) : all_words[i] = word})

\* set(text.lower().split())
TokenSet(text) == Range(Split(Lower(text)))

RECURSIVE RarestLoop(_, _, _, _, _)
\* the loop of get_rarest_for_text over words_in_text; min_count None is inf
RarestLoop(words, i, all_words, rarest_word, min_count) ==
    IF i > Len(words) THEN rarest_word
    ELSE IF IsNone(min_count) \/ WordCount(all_words, words[i]) < Get(min_count)
         THEN RarestLoop(words, i + 1, all_words, Some(words[i]),
                         Some(WordCount(all_words, words[i])))
         ELSE RarestLoop(words, i + 1, all_words, rarest_word, min_count)

\* A token as the value of a column: "" is the empty text
TokenV(tok) == StrV(IF tok = "" THEN <<>> ELSE <<tok>>)

\* get_rarest_for_text; words_in_text is list(set(...)) in the order given
get_rarest_for_text(v, all_words, words_in_text) ==
    IF ~IsStr(v) \/ IsBlank(v.s) THEN TokenV("")
    ELSE LET r == RarestLoop(words_in_text, 1, all_words, None, None)
         IN IF ~IsNone(r) /\ Get(r) # "" THEN TokenV(Get(r)) ELSE TokenV("")

\* The text column process_data and _find_rarest_word choose
TextColumn(df) ==
    IF "Text" \in Range(df.columns) THEN Some("Text")
    ELSE IF "original_text" \in Range(df.columns) THEN Some("original_text")
    ELSE None

\* DataProcessor._find_rarest_word; orders[i] lists the token set of row i
_find_rarest_word(df, orders) ==
    IF FrameEmpty(df) THEN <<>>
    ELSE IF IsNone(TextColumn(df)) THEN [i \in 1..Len(df.rows) |-> TokenV("")]
    ELSE LET vals == Column(df, Get(TextColumn(df)))
         IN [i \in 1..Len(vals) |->
                get_rarest_for_text(vals[i], AllWords(vals), orders[i])]

\* Compound scores, in hundredths
Scores == {-50, -49, 0, 49, 50}

\* What self.sid.polarity_scores(text)['compound'] can do
ScorerOutcomes == {Ok(sc) : sc \in Scores} \cup {Raise("Exception", "scorer failed")}

\* _get_sentiment with both thresholds exclusive
_get_sentiment_strict(v, scored) ==
    IF ~IsStr(v) \/ IsBlank(v.s) THEN "neutral"
    ELSE IF ~scored.ok THEN "neutral"
    ELSE IF scored.val > 50 THEN "positive"
    ELSE IF scored.val < -50 THEN "negative"
    ELSE "neutral"

\* DataProcessor._get_sentiment; scored is the outcome of the scorer
_get_sentiment(v, scored) ==
    IF ~IsStr(v) \/ IsBlank(v.s) THEN "neutral"
    ELSE IF ~scored.ok THEN "neutral"
    ELSE IF scored.val >= 50 THEN "positive"
    ELSE IF scored.val <= -50 THEN "negative"
    ELSE "neutral"

\* \w at position k of a text; outside the text there is no word character
WordAt(text, k) ==
    k >= 1 /\ k <= Len(text) /\ text[k] \notin Whitespace \cup Punctuation

\* \b between positions k and k + 1
BoundaryAfter(text, k) == WordAt(text, k) # WordAt(text, k + 1)

\* re.search(r'\b' + re.escape(weapon) + r'\b', text)
WeaponMatches(weapon, text) ==
    \E i \in 1..(Len(text) - Len(weapon) + 1) :
        /\ SubSeq(text, i, i + Len(weapon) - 1) = weapon
        /\ BoundaryAfter(text, i - 1)
        /\ BoundaryAfter(text, i + Len(weapon) - 1)

RECURSIVE WeaponLoop(_, _, _)
WeaponLoop(order, i, text_lower) ==
    IF i > Len(order) THEN <<>>
    ELSE IF WeaponMatches(order[i], text_lower) THEN order[i]
    ELSE WeaponLoop(order, i + 1, text_lower)

\* DataProcessor._find_weapons; order lists self.weapons_list
_find_weapons(v, order) ==
    IF ~IsStr(v) \/ IsBlank(v.s) THEN StrV(<<>>)
    ELSE StrV(WeaponLoop(order, 1, Lower(v.s)))

\* df[name] = series
SetColumn(df, name, series) ==
    [columns |-> IF name \in Range(df.columns) THEN df.columns
                 ELSE Append(df.columns, name),
     rows |-> [i \in 1..Len(df.rows) |->
                 [c \in Range(df.columns) \cup {name} |->
                     IF c = name THEN series[i] ELSE df.rows[i][c]]]]

RECURSIVE Product(_)
\* The sequences that take their i-th element from the i-th set
Product(sets) ==
    IF Len(sets) = 0 THEN {<<>>}
    ELSE {<<x>> \o r : x \in Head(sets), r \in Product(Tail(sets))}

\* The row's text is handed to the tokenizer and to the scorer
RowIsText(df, i) ==
    /\ ~IsNone(TextColumn(df))
    /\ IsStr(df.rows[i][Get(TextColumn(df))])
    /\ ~IsBlank(df.rows[i][Get(TextColumn(df))].s)

\* What process_data draws from outside: for each row the listing order of
\* its token set and the outcome of the scorer, and the listing order of the
\* weapon set
Envs(df, wf) ==
    {[orders |-> o, scores |-> sc, worder |-> w] :
        o \in Product([i \in 1..Len(df.rows) |->
                         IF RowIsText(df, i)
                         THEN Orders(TokenSet(df.rows[i][Get(TextColumn(df))].s))
                         ELSE {<<>>}]),
        sc \in Product([i \in 1..Len(df.rows) |->
                          IF RowIsText(df, i) THEN ScorerOutcomes ELSE {Ok(0)}]),
        w \in Orders(_load_weapons(wf))}

\* DataProcessor.process_data
process_data(df, env) ==
    IF FrameEmpty(df) THEN df
    ELSE IF IsNone(TextColumn(df)) THEN df
    ELSE LET text_column == Get(TextColumn(df))
             d1 == IF "original_text" \notin Range(df.columns)
                   THEN SetColumn(df, "original_text", Column(df, text_column))
                   ELSE df
             d2 == SetColumn(d1, "rarest_word", _find_rarest_word(d1, env.orders))
             \* processed_df[text_column], which the steps leave as in df
             texts == Column(df, text_column)
             d3 == SetColumn(d2, "sentiment",
                             [i \in 1..Len(texts) |->
                                 TokenV(_get_sentiment(texts[i], env.scores[i]))])
             d4 == SetColumn(d3, "weapons_detected",
                             [i \in 1..Len(texts) |->
                                 _find_weapons(texts[i], env.worder)])
         IN d4

----------------------------------------------------------------------------
(* Analysis orchestrator: app/manager.py *)

\* data['raw_data'] in AnalysisManager.__init__: a column of a table, or a
\* key of a dict; KeyError when there is none
GetRawData(data) ==
    IF data.kind = "frame"
    THEN IF "raw_data" \in Range(data.df.columns)
         THEN Ok(Column(data.df, "raw_data"))
         ELSE Raise("KeyError", "'raw_data'")
    ELSE IF "raw_data" \in DOMAIN data.d
         THEN Ok(data.d["raw_data"])
         ELSE Raise("KeyError", "'raw_data'")

\* AnalysisManager.__init__
AnalysisManagerInit(data, wf) ==
    LET raw == GetRawData(data)
    IN IF ~raw.ok THEN raw
       ELSE Ok([raw_data |-> raw.val,
                data_as_df |-> None,
                weapons |-> MgrLoadWeapons(wf)])

\* AnalysisManager.get_processed_data
get_processed_data(m) ==
    IF IsNone(m.data_as_df) THEN <<>>
    ELSE ToDictRecords(Get(m.data_as_df))

\* analysis_manager.run_full_analysis(): the class defines start_analysis,
\* get_processed_data and _load_weapons and no run_full_analysis, so the
\* attribute lookup raises
run_full_analysis(m) ==
    Raise("AttributeError",
          "'AnalysisManager' object has no attribute 'run_full_analysis'")

\* AnalysisManager.start_analysis: there is no completion flag, so every
\* invocation enters step 1 (steps), which looks up convert_to_df on a new
\* DataProcessor; the class defines no such method, and the handler logs the
\* AttributeError and re-raises it. The manager is left as it was.
start_analysis(m) ==
    [mgr |-> m,
     steps |-> 1,
     res |-> Raise("AttributeError",
                   "'DataProcessor' object has no attribute 'convert_to_df'")]

----------------------------------------------------------------------------
(* API surface: app/main.py *)

\* Python truth value of an optional string / an optional list
TruthyStr(o) == ~IsNone(o) /\ Get(o) # ""
TruthyList(o) == ~IsNone(o) /\ Len(Get(o)) > 0

\* A response carries, besides what the client receives, whether the store
\* was reachable when the request was served (store_up, filled in by Serve)
NoResponse ==
    [endpoint |-> "", status |-> 0, detail |-> "", body |-> <<>>, store_up |-> TRUE]

Reply(endpoint, body) ==
    [endpoint |-> endpoint, status |-> 200, detail |-> "", body |-> body,
     store_up |-> TRUE]

\* raise HTTPException(status_code=..., detail=...)
HTTPException(endpoint, code, detail) ==
    [endpoint |-> endpoint, status |-> code, detail |-> detail, body |-> <<>>,
     store_up |-> TRUE]

NotReadyDetail == "Analysis results not ready yet. Please wait for startup to complete."

\* The except branch of lifespan without `processed_results = []`
StartupFailedNoCache(e, log) ==
    [results |-> None, error |-> Some(e.msg), log |-> log]

\* The except branch of lifespan without `startup_error = str(e)`
StartupFailedNoError(e, log) ==
    [results |-> Some(<<>>), error |-> None, log |-> log]

\* The except branch of lifespan
StartupFailed(e, log) ==
    [results |-> Some(<<>>), error |-> Some(e.msg), log |-> log]

\* lifespan after connect has returned: fetch, build the manager, run the
\* analysis, read its result and write the cache
LifespanTail(dl, up, docs, wf, m) ==
    LET f == get_all_data_as_dataframe(dl, up, docs, m)
    IN IF ~f.ok THEN StartupFailed(f, <<"connect", "fetch">>)
       ELSE LET c == AnalysisManagerInit([kind |-> "frame", df |-> f.val], wf)
            IN IF ~c.ok THEN StartupFailed(c, <<"connect", "fetch", "construct">>)
               ELSE LET a == run_full_analysis(c.val)
                    IN IF ~a.ok
                       THEN StartupFailed(a, <<"connect", "fetch", "construct", "analysis">>)
                       ELSE [results |-> Some(get_processed_data(a.val)),
                             error |-> None,
                             log |-> <<"connect", "fetch", "construct", "analysis",
                                       "extract", "cache">>]

\* lifespan, up to the return of `await data_loader.connect()`
LifespanConnect ==
    /\ pc = "startup"
    /\ \E m \in StoreErrMsgs :
         LET c == connect(data_loader, store_up, m)
         IN /\ data_loader' = c.loader
            /\ IF c.res.ok
               THEN /\ pc' = "fetching"
                    /\ startup_log' = <<"connect">>
                    /\ UNCHANGED <<processed_results, startup_error>>
               ELSE /\ pc' = "serving"
                    /\ startup_log' = StartupFailed(c.res, <<"connect">>).log
                    /\ processed_results' = StartupFailed(c.res, <<"connect">>).results
                    /\ startup_error' = StartupFailed(c.res, <<"connect">>).error
    /\ UNCHANGED <<store_up, store_docs, weapons_file, response, pd_first>>
    /\ UNCHANGED batchvars

\* lifespan, from the fetch to the yield
LifespanAnalyse ==
    /\ pc = "fetching"
    /\ \E m \in StoreErrMsgs :
         LET t == LifespanTail(data_loader, store_up, store_docs, weapons_file, m)
         IN /\ processed_results' = t.results
            /\ startup_error' = t.error
            /\ startup_log' = t.log
    /\ pc' = "serving"
    /\ UNCHANGED <<store_up, store_docs, weapons_file, data_loader, response,
                   pd_first>>
    /\ UNCHANGED batchvars

\* lifespan after the yield
Shutdown ==
    /\ pc = "serving"
    /\ pc' = "stopped"
    /\ data_loader' = disconnect(data_loader)
    /\ UNCHANGED <<store_up, store_docs, weapons_file, processed_results,
                   startup_error, startup_log, response, pd_first>>
    /\ UNCHANGED batchvars

\* A request leaves everything but the response as it is
Serve(r) ==
    /\ pc = "serving"
    /\ response' = [r EXCEPT !.store_up = store_up]
    /\ pd_first' = IF r.endpoint = "/processed-data" /\ IsNone(pd_first)
                   THEN Some([r EXCEPT !.store_up = store_up]) ELSE pd_first
    /\ UNCHANGED <<store_up, store_docs, weapons_file, data_loader, pc,
                   processed_results, startup_error, startup_log>>
    /\ UNCHANGED batchvars

RootPayload ==
    [status |-> "ok", service |-> "Malicious Text Analysis API", version |-> "1.0.0"]

\* GET /
health_check_endpoint == Serve(Reply("/", RootPayload))

\* GET /health
HealthResponse(dl, pr, se) ==
    LET db_status == IF dl.collection # "None" THEN "connected" ELSE "disconnected"
        processing_status ==
            IF TruthyStr(se) THEN "failed: " \o Get(se)
            ELSE IF ~IsNone(pr) THEN "ready (" \o ToString(Len(Get(pr))) \o " records)"
            ELSE "not_ready"
    IN IF db_status = "disconnected"
       THEN HTTPException("/health", 503, "Database not available")
       ELSE Reply("/health",
                  [status |-> "ok",
                   service |-> "Malicious Text Analysis API",
                   version |-> "1.0.0",
                   database_status |-> db_status,
                   processing_status |-> processing_status])

detailed_health_check ==
    Serve(HealthResponse(data_loader, processed_results, startup_error))

\* GET /data
RawDataResponse(dl, up, docs, m) ==
    LET r == get_all_data(dl, up, docs, m)
    IN IF r.ok THEN Reply("/data", r.val)
       ELSE IF r.exc = "RuntimeError" THEN HTTPException("/data", 503, r.msg)
       ELSE HTTPException("/data", 500, "An unexpected error occurred")

read_raw_data ==
    \E m \in StoreErrMsgs :
        Serve(RawDataResponse(data_loader, store_up, store_docs, m))

\* GET /processed-data without the check of startup_error
ProcessedDataResponseNoErrorCheck(pr, se) ==
    IF IsNone(pr)
    THEN HTTPException("/processed-data", 503, NotReadyDetail)
    ELSE Reply("/processed-data", Get(pr))

\* GET /processed-data
ProcessedDataResponse(pr, se) ==
    IF TruthyStr(se)
    THEN HTTPException("/processed-data", 503,
                       "Analysis failed during startup: " \o Get(se))
    ELSE IF IsNone(pr)
    THEN HTTPException("/processed-data", 503, NotReadyDetail)
    ELSE Reply("/processed-data", Get(pr))

get_processed_data_endpoint ==
    Serve(ProcessedDataResponse(processed_results, startup_error))

\* GET /stats
StatsResponse(dl, pr, se) ==
    Reply("/stats",
          [total_processed_records |-> IF TruthyList(pr) THEN Len(Get(pr)) ELSE 0,
           startup_error |-> se,
           status |-> IF TruthyList(pr) THEN "ready" ELSE "not_ready",
           database_connected |-> dl.collection # "None"])

\* GET /stats that also resets startup_error through its `global` declaration
get_stats_resets_error ==
    /\ pc = "serving"
    /\ response' = [StatsResponse(data_loader, processed_results, startup_error)
                      EXCEPT !.store_up = store_up]
    /\ startup_error' = None
    /\ UNCHANGED <<store_up, store_docs, weapons_file, data_loader, pc,
                   processed_results, startup_log, pd_first>>
    /\ UNCHANGED batchvars

get_stats == Serve(StatsResponse(data_loader, processed_results, startup_error))

\* GET /debug/schema
SchemaResponse(dl, up, docs, m) ==
    LET r == get_all_data_as_dataframe(dl, up, docs, m)
    IN IF r.ok
       THEN Reply("/debug/schema",
                  [columns |-> r.val.columns,
                   dataframe_shape |-> <<Len(r.val.rows), Len(r.val.columns)>>,
                   sample_record |-> IF ~FrameEmpty(r.val)
                                     THEN Some(r.val.rows[1]) ELSE None])
       ELSE Reply("/debug/schema", [error |-> r.msg])

debug_schema ==
    \E m \in StoreErrMsgs :
        Serve(SchemaResponse(data_loader, store_up, store_docs, m))

\* GET /debug/weapons
WeaponsResponse(wf, order) ==
    Reply("/debug/weapons",
          [weapons_count |-> Cardinality(_load_weapons(wf)),
           sample_weapons |-> IF _load_weapons(wf) # {}
                              THEN SubSeq(order, 1, IF Len(order) < 10 THEN Len(order) ELSE 10)
                              ELSE <<>>,
           weapons_file_loaded |-> Cardinality(_load_weapons(wf)) > 0])

debug_weapons ==
    \E order \in Orders(_load_weapons(weapons_file)) :
        Serve(WeaponsResponse(weapons_file, order))

\* The environment: the store goes down or comes back
StoreFlips ==
    /\ pc # "stopped"
    /\ store_up' = ~store_up
    /\ UNCHANGED <<store_docs, weapons_file, data_loader, pc, processed_results,
                   startup_error, startup_log, response, pd_first>>
    /\ UNCHANGED batchvars

----------------------------------------------------------------------------
(* The service: one process from its start to its shutdown *)

BatchIdle ==
    /\ mgr = None
    /\ start_calls = 0
    /\ steps_run = 0
    /\ mgr_exc = None
    /\ mgr_returns = <<>>
    /\ proc_out = None
    /\ proc_env = None

Init ==
    /\ store_up \in BOOLEAN
    /\ store_docs \in SysDocLists(MaxDocs)
    /\ weapons_file \in WeaponFiles
    /\ data_loader = LoaderInit
    /\ pc = "startup"
    /\ processed_results = None
    /\ startup_error = None
    /\ startup_log = <<>>
    /\ response = NoResponse
    /\ pd_first = None
    /\ BatchIdle

Next ==
    \/ LifespanConnect
    \/ LifespanAnalyse
    \/ Shutdown
    \/ health_check_endpoint
    \/ detailed_health_check
    \/ read_raw_data
    \/ get_processed_data_endpoint
    \/ get_stats
    \/ debug_schema
    \/ debug_weapons
    \/ StoreFlips

Spec == Init /\ [][Next]_vars

----------------------------------------------------------------------------
(* The orchestrator and the batch processor over a table of fetched records *)

ServiceIdle ==
    /\ store_up = TRUE
    /\ data_loader = [client |-> "open", db |-> "set", collection |-> "set"]
    /\ processed_results = None
    /\ startup_error = None
    /\ startup_log = <<>>
    /\ response = NoResponse
    /\ pd_first = None

\* The records as get_all_data returns them
Fetched == FindAll(store_docs)

\* The table as get_all_data_as_dataframe returns it
FetchedFrame == IF Len(Fetched) > 0 THEN DataFrame(Fetched) ELSE EmptyFrame

InitManager ==
    /\ ServiceIdle
    /\ pc = "manager"
    /\ store_docs \in DocLists(MaxRows)
    /\ weapons_file \in WeaponFiles
    /\ mgr = Some(AnalysisManagerInit([kind |-> "dict", d |-> ("raw_data" :> Fetched)],
                                      weapons_file).val)
    /\ start_calls = 0
    /\ steps_run = 0
    /\ mgr_exc = None
    /\ mgr_returns = <<>>
    /\ proc_out = None
    /\ proc_env = None

\* one invocation of mgr.start_analysis()
StartAnalysis ==
    /\ pc = "manager"
    /\ start_calls < MaxCalls
    /\ LET r == start_analysis(Get(mgr))
       IN /\ mgr' = Some(r.mgr)
          /\ steps_run' = steps_run + r.steps
          /\ mgr_exc' = IF r.res.ok THEN None ELSE Some(r.res.exc)
    /\ start_calls' = start_calls + 1
    /\ UNCHANGED <<mgr_returns, proc_out, proc_env>>
    /\ UNCHANGED sysvars

\* one invocation of mgr.get_processed_data(); the list is recorded with the
\* number of start_analysis invocations that preceded it
GetProcessedData ==
    /\ pc = "manager"
    /\ Len(mgr_returns) < MaxCalls
    /\ mgr_returns' = Append(mgr_returns,
                             [after |-> start_calls, list |-> get_processed_data(Get(mgr))])
    /\ UNCHANGED <<mgr, start_calls, steps_run, mgr_exc, proc_out, proc_env>>
    /\ UNCHANGED sysvars

NextManager == StartAnalysis \/ GetProcessedData

SpecManager == InitManager /\ [][NextManager]_vars

InitProcessor ==
    /\ ServiceIdle
    /\ pc = "processor"
    /\ store_docs \in DocLists(MaxRows)
    /\ weapons_file \in WeaponFiles
    /\ mgr = None
    /\ start_calls = 0
    /\ steps_run = 0
    /\ mgr_exc = None
    /\ mgr_returns = <<>>
    /\ proc_out = None
    /\ proc_env = None

\* DataProcessor().process_data(df) on the fetched table
ProcessData ==
    /\ pc = "processor"
    /\ IsNone(proc_out)
    /\ \E env \in Envs(FetchedFrame, weapons_file) :
          /\ proc_out' = Some(process_data(FetchedFrame, env))
          /\ proc_env' = Some(env)
    /\ UNCHANGED <<mgr, start_calls, steps_run, mgr_exc, mgr_returns>>
    /\ UNCHANGED sysvars

NextProcessor == ProcessData

SpecProcessor == InitProcessor /\ [][NextProcessor]_vars

----------------------------------------------------------------------------
(* Properties of the service *)

StartupOver == pc \in {"serving", "stopped"}

\* connect raised during startup: the sequence stopped after its first step
ConnectRaised == StartupOver /\ startup_log = <<"connect">>

\* connect returned during startup
ConnectReturned == StartupOver /\ Len(startup_log) >= 2

\* the fetch of startup returned the records of the store
FetchReturned == StartupOver /\ Len(startup_log) >= 3

\* what a client sees of a response
Seen(r) == [endpoint |-> r.endpoint, status |-> r.status, detail |-> r.detail,
            body |-> r.body]

\* C2: after startup has finished, the cache holds as many annotated records
\* as were fetched from the store at startup.
C2_CountEqualsFetched ==
    FetchReturned => Len(Get(processed_results)) = Len(store_docs)

\* C3: when the store is reachable and the fetch at startup returns no
\* record, startup records no error and every GET /processed-data answers 200
\* with the empty list.
C3_EmptyFetchServesEmptyList ==
    (FetchReturned /\ Len(store_docs) = 0) =>
        /\ ~TruthyStr(startup_error)
        /\ response.endpoint = "/processed-data" =>
              (response.status = 200 /\ response.body = <<>>)

\* The details GET /processed-data can give after connect raised at startup
ConnectFailDetails == {"Analysis failed during startup: " \o m : m \in StoreErrMsgs}

\* C4: when connect raises at startup the service still serves, GET /health
\* answers 503 and GET /processed-data answers 503 with a detail that no
\* process whose startup connect succeeded ever gives, whatever the store
\* does later.
C4_UnreachableAtStartup ==
    /\ (ConnectRaised /\ response.endpoint = "/health") => response.status = 503
    /\ (ConnectRaised /\ response.endpoint = "/processed-data") =>
          (response.status = 503 /\ response.detail \in ConnectFailDetails)
    /\ (ConnectReturned /\ response.endpoint = "/processed-data") =>
          response.detail \notin ConnectFailDetails

C4_Witness ==
    /\ ConnectRaised
    /\ pc = "serving"
    /\ response.endpoint = "/processed-data"
    /\ response.status = 503

\* C5: GET /health answers 503 whenever the store is unreachable when the
\* request is served.
C5_HealthUnavailableWhenStoreDown ==
    (response.endpoint = "/health" /\ ~response.store_up) => response.status = 503

StartupSteps == <<"connect", "fetch", "construct", "analysis", "extract", "cache">>

\* C6: the startup steps run in the order connect, fetch, batch processing,
\* cache write, each at most once; requests are answered only after the
\* sequence has completed or failed, the cache is then set, and the
\* "results not ready yet" response is never given.
C6_StartupBlocksReadiness ==
    /\ startup_log = SubSeq(StartupSteps, 1, Len(startup_log))
    /\ response.endpoint # "" => StartupOver
    /\ StartupOver => ~IsNone(processed_results)
    /\ response.detail # NotReadyDetail
    /\ ~StartupOver => (IsNone(processed_results) /\ IsNone(startup_error))

C6_Witness ==
    /\ pc = "serving"
    /\ Len(startup_log) >= 3
    /\ response.endpoint = "/processed-data"

\* C7: once startup is over no step changes processed_results or
\* startup_error, and every GET /processed-data gives what the first one gave.
C7_CacheWriteOnce ==
    [][StartupOver =>
          /\ processed_results' = processed_results
          /\ startup_error' = startup_error
          /\ (response'.endpoint = "/processed-data" /\ ~IsNone(pd_first)) =>
                Seen(response') = Seen(Get(pd_first))]_vars

\* a later GET /processed-data, served with the store in another state than
\* at the first one
C7_Witness ==
    /\ ~IsNone(pd_first)
    /\ response.endpoint = "/processed-data"
    /\ response.store_up # Get(pd_first).store_up

\* the gateway read would raise if called now
ReadFailsNow == data_loader.collection = "None" \/ ~store_up

\* C9: every gateway read raises RuntimeError when the gateway is not
\* connected or the store fails, and /data and /debug/schema answer 503 when
\* their read raised.
C9_ReadFailuresBecome503 ==
    /\ ReadFailsNow =>
          \A m \in StoreErrMsgs :
              /\ get_all_data(data_loader, store_up, store_docs, m).exc = "RuntimeError"
              /\ get_all_data_as_dataframe(data_loader, store_up, store_docs, m).exc
                    = "RuntimeError"
              /\ get_data_count(data_loader, store_up, store_docs, m).exc = "RuntimeError"
              /\ get_sample_document(data_loader, store_up, store_docs, m).exc
                    = "RuntimeError"
    /\ (/\ response.endpoint \in {"/data", "/debug/schema"}
        /\ (data_loader.collection = "None" \/ ~response.store_up))
          => response.status = 503

----------------------------------------------------------------------------
(* Properties of the orchestrator and of the batch processor *)

\* C1: batch analysis is idempotent: the lists get_processed_data returns
\* after the first and after any later invocation of start_analysis are the
\* same, and only the first invocation enters the processing steps.
C1_SecondInvocationIsCached ==
    /\ \A i, j \in 1..Len(mgr_returns) :
          (mgr_returns[i].after >= 1 /\ mgr_returns[j].after >= 1) =>
              mgr_returns[i].list = mgr_returns[j].list
    /\ steps_run <= 1

DerivedColumns == {"rarest_word", "sentiment", "weapons_detected"}

\* C8: batch processing gives every record its three derived values; a record
\* whose text is missing, not a string or blank gets the defaults, and a
\* record with a text gets a rarest word.
C8_BadRecordDegradesAlone ==
    ~IsNone(proc_out) =>
        LET out == Get(proc_out)
        IN /\ Len(out.rows) = Len(store_docs)
           /\ \A i \in 1..Len(out.rows) :
                 /\ DerivedColumns \subseteq DOMAIN out.rows[i]
                 /\ ~RowIsText(FetchedFrame, i) =>
                       /\ out.rows[i]["rarest_word"] = TokenV("")
                       /\ out.rows[i]["sentiment"] = TokenV("neutral")
                       /\ out.rows[i]["weapons_detected"] = StrV(<<>>)
                 /\ RowIsText(FetchedFrame, i) =>
                       out.rows[i]["rarest_word"] # TokenV("")

\* The frequency, in the column, of the k-th token of a text
FreqOfToken(text, k, all_words) == WordCount(all_words, Split(Lower(text))[k])

\* The first token, in the order of the text, whose frequency is the least
\* among the tokens of the text (compared without regard to case)
FirstRarest(text, all_words) ==
    LET n == Len(Split(text))
        least == CHOOSE c \in {FreqOfToken(text, k, all_words) : k \in 1..n} :
                    \A k \in 1..n : c <= FreqOfToken(text, k, all_words)
        first == CHOOSE k \in 1..n :
                    /\ FreqOfToken(text, k, all_words) = least
                    /\ \A j \in 1..(k - 1) : FreqOfToken(text, j, all_words) # least
    IN Split(Lower(text))[first]

\* C10: the rarest word of a non-blank text is its first token, in the order
\* of the text, among those of least frequency; a blank text gives "".
C10_RarestIsFirstMinimum ==
    (~IsNone(proc_out) /\ ~IsNone(TextColumn(FetchedFrame))) =>
        LET vals == Column(FetchedFrame, Get(TextColumn(FetchedFrame)))
        IN \A i \in 1..Len(vals) :
              Get(proc_out).rows[i]["rarest_word"] =
                  IF RowIsText(FetchedFrame, i)
                  THEN TokenV(FirstRarest(vals[i].s, AllWords(vals)))
                  ELSE TokenV("")

\* the term occurs in the text with no word character next to it on either
\* side: it is not a fragment of a longer word
OccursAsWholeWord(term, text) ==
    \E i \in 1..(Len(text) - Len(term) + 1) :
        /\ SubSeq(text, i, i + Len(term) - 1) = term
        /\ ~WordAt(text, i - 1)
        /\ ~WordAt(text, i + Len(term))

\* the terms of the lower-cased weapon set that occur in the lower-cased text
\* of a value as whole words
TermsInText(v) ==
    {w \in _load_weapons(weapons_file) : IsStr(v) /\ OccursAsWholeWord(w, Lower(v.s))}

\* C11: weapon detection gives either the empty string or a term of the
\* lower-cased weapon set that occurs in the lower-cased text as a whole word,
\* and gives the empty string exactly when no term of the set does (so for an
\* empty weapon set and for an empty text).
C11_WeaponIsWholeWordTerm ==
    (~IsNone(proc_out) /\ ~IsNone(TextColumn(FetchedFrame))) =>
        LET vals == Column(FetchedFrame, Get(TextColumn(FetchedFrame)))
        IN \A i \in 1..Len(vals) :
              LET found == Get(proc_out).rows[i]["weapons_detected"]
              IN /\ found = StrV(<<>>) \/ found.s \in TermsInText(vals[i])
                 /\ found = StrV(<<>>) <=> TermsInText(vals[i]) = {}

Labels == {"positive", "negative", "neutral"}

\* C12: the sentiment of a text whose compound score is s is positive when
\* s >= 0.5, negative when s <= -0.5 and neutral otherwise, both boundary
\* values included; a value that is not a string, a blank text and a failure
\* of the scorer give neutral; the result is always one of the three labels.
C12_SentimentThresholds ==
    (~IsNone(proc_out) /\ ~IsNone(TextColumn(FetchedFrame))) =>
        \A i \in 1..Len(store_docs) :
            LET label == Get(proc_out).rows[i]["sentiment"]
                scored == Get(proc_env).scores[i]
            IN /\ \E l \in Labels : label = TokenV(l)
               /\ ~RowIsText(FetchedFrame, i) => label = TokenV("neutral")
               /\ (RowIsText(FetchedFrame, i) /\ ~scored.ok) => label = TokenV("neutral")
               /\ (RowIsText(FetchedFrame, i) /\ scored.ok) =>
                     /\ label = TokenV("positive") <=> scored.val >= 50
                     /\ label = TokenV("negative") <=> scored.val <= -50
                     /\ label = TokenV("neutral") <=>
                           (scored.val > -50 /\ scored.val < 50)

\* two records scored at the two boundary values, 0.5 and -0.5
C12_Witness ==
    /\ ~IsNone(proc_out)
    /\ ~IsNone(TextColumn(FetchedFrame))
    /\ \E i, j \in 1..Len(store_docs) :
          /\ RowIsText(FetchedFrame, i)
          /\ Get(proc_env).scores[i] = Ok(50)
          /\ Get(proc_out).rows[i]["sentiment"] = TokenV("positive")
          /\ RowIsText(FetchedFrame, j)
          /\ Get(proc_env).scores[j] = Ok(-50)
          /\ Get(proc_out).rows[j]["sentiment"] = TokenV("negative")

----------------------------------------------------------------------------
(* The degraded mode of the service *)

\* some step of the startup sequence raised: the sequence stopped before its
\* last step
StartupRaised == StartupOver /\ startup_log # StartupSteps

\* C13: once startup is over, startup_error is set exactly when a step of the
\* startup sequence raised, and processed_results is then the empty list;
\* GET /processed-data answers 503 exactly when startup_error is set and
\* gives the cached list otherwise; the process serves requests after a
\* failed startup.
C13_DegradedModeAfterFailure ==
    /\ StartupOver =>
          /\ ~IsNone(startup_error) <=> StartupRaised
          /\ ~IsNone(startup_error) => processed_results = Some(<<>>)
          /\ response.endpoint = "/processed-data" =>
                IF ~IsNone(startup_error)
                THEN response.status = 503
                ELSE response.status = 200 /\ response.body = Get(processed_results)
    /\ response.endpoint # "" => pc \in {"serving", "stopped"}

\* the construction of the manager raised over a fetched record, and a
\* request was answered afterwards
C13_Witness ==
    /\ pc = "serving"
    /\ startup_log = <<"connect", "fetch", "construct">>
    /\ Len(store_docs) > 0
    /\ startup_error = Some("'raw_data'")
    /\ response.endpoint = "/processed-data"
    /\ response.status = 503

====
